---- MODULE Spec2Model ----
(***************************************************************************)
(* Model of the brainscan-insight-navigator client:                        *)
(*   - CaseUpload   (src/src/components/dashboard/ProcessingStatus.tsx,    *)
(*                   lines 433-707): detectScanTypes, handleFileSelect,    *)
(*                   validateCaseId, handleUpload                          *)
(*   - CaseHistory  (src/unnamed/part_000, lines 101-479): fetchCases      *)
(* Strings are sequences of one-character strings so that toLowerCase,     *)
(* includes and trim are computed, not assumed.                            *)
(***************************************************************************)
EXTENDS Integers, Sequences, FiniteSets, TLC

\* ------------------------------------------------------------------------
\* Bounds
\* ------------------------------------------------------------------------
\* longest filename, in fragments, given to the classifier on its own
MaxFrags == 3
\* longest file list given to the classifier
MaxFiles == 3
\* number of handleUpload invocations followed
MaxUploads == 2
\* number of fetchCases invocations followed
MaxCycles == 2
\* number of cancel requests followed
MaxCancels == 2
\* number of calls followed at the authentication gate
MaxAuthCalls == 4

\* ------------------------------------------------------------------------
\* Strings
\* ------------------------------------------------------------------------
\* String.prototype.toLowerCase on one character
LowerChar(c) ==
  CASE c = "T" -> "t"
    [] c = "C" -> "c"
    [] c = "E" -> "e"
    [] c = "F" -> "f"
    [] c = "L" -> "l"
    [] c = "A" -> "a"
    [] c = "I" -> "i"
    [] c = "R" -> "r"
    [] c = "X" -> "x"
    [] c = "G" -> "g"
    [] OTHER -> c

\* String.prototype.toLowerCase
ToLowerCase(s) == [i \in 1..Len(s) |-> LowerChar(s[i])]

\* String.prototype.includes: p occurs in s as a contiguous substring
Includes(s, p) ==
  \E i \in 0..(Len(s) - Len(p)) : SubSeq(s, i + 1, i + Len(p)) = p

\* the substrings the classifier tests for
t1 == <<"t", "1">>
t2 == <<"t", "2">>
ce == <<"c", "e">>
t10 == <<"t", "1", "0">>
t20 == <<"t", "2", "0">>
t2star == <<"t", "2", "*">>
t1ce == <<"t", "1", "c", "e">>
t1_ce == <<"t", "1", "_", "c", "e">>
t1dashce == <<"t", "1", "-", "c", "e">>
flair == <<"f", "l", "a", "i", "r">>

\* ------------------------------------------------------------------------
\* Filenames offered to the classifier: concatenations of fragments
\* ------------------------------------------------------------------------
Fragments ==
  { <<"t", "1">>, <<"T", "1">>, <<"t", "2">>, <<"T", "2">>, <<"0">>,
    <<"c", "e">>, <<"C", "E">>, <<"_">>, <<"-">>, <<"*">>,
    <<"f", "l", "a", "i", "r">>, <<"x">> }

RECURSIVE Names(_)
Names(n) ==
  IF n = 0 THEN {<<>>}
  ELSE LET shorter == Names(n - 1)
       IN shorter \cup {a \o f : a \in shorter, f \in Fragments}

RECURSIVE ListsUpTo(_, _)
\* the non-empty lists of at most n elements of S
ListsUpTo(S, n) ==
  IF n <= 1 THEN {<<x>> : x \in S}
  ELSE LET shorter == ListsUpTo(S, n - 1)
       IN shorter \cup {Append(l, x) : l \in shorter, x \in S}

\* the names that make up the longer file lists
ListNames ==
  Names(1) \cup { <<"t", "1", "c", "e">>, <<"T", "1", "_", "C", "E">>,
                  <<"t", "1", "0">>, <<"T", "2", "*">> }

\* what a file input can deliver to detectScanTypes on its own
ClassifyInputs ==
  {<<n>> : n \in Names(MaxFrags)} \cup ListsUpTo(ListNames, MaxFiles)

\* ------------------------------------------------------------------------
\* CaseUpload: the classifier
\* ------------------------------------------------------------------------
requiredScans == <<"T1", "T2">>
optionalScans == <<"T1CE", "FLAIR">>
allScans == requiredScans \o optionalScans

\* an object literal {}: a map with no key
EmptyMap == [l \in {} |-> <<>>]

\* detected[label] = name
Put(detected, label, name) ==
  [l \in DOMAIN detected \cup {label} |-> IF l = label THEN name ELSE detected[l]]

\* the four conditions of detectScanTypes, on the lower-cased filename
T1Rule(filename) ==
  Includes(filename, t1) /\ ~Includes(filename, ce) /\ ~Includes(filename, t10)
T2Rule(filename) ==
  Includes(filename, t2) /\ ~Includes(filename, t2star) /\ ~Includes(filename, t20)
T1CERule(filename) ==
  Includes(filename, t1ce) \/ Includes(filename, t1_ce) \/ Includes(filename, t1dashce)
FLAIRRule(filename) == Includes(filename, flair)

\* (mutant) the T1 and T2 branches without their t10 / t20 / t2* guards
ScanTypeOfUnguarded(name) ==
  LET filename == ToLowerCase(name)
  IN IF Includes(filename, t1) /\ ~Includes(filename, ce) THEN "T1"
     ELSE IF Includes(filename, t2) THEN "T2"
     ELSE IF T1CERule(filename) THEN "T1CE"
     ELSE IF FLAIRRule(filename) THEN "FLAIR"
     ELSE "none"

\* the if / else-if chain of detectScanTypes for one file: the branch taken
ScanTypeOf(name) ==
  LET filename == ToLowerCase(name)
  IN IF T1Rule(filename) THEN "T1"
     ELSE IF T2Rule(filename) THEN "T2"
     ELSE IF T1CERule(filename) THEN "T1CE"
     ELSE IF FLAIRRule(filename) THEN "FLAIR"
     ELSE "none"

\* (mutant) an iteration that keeps the first file of a label
DetectOneKeepFirst(detected, name) ==
  LET label == ScanTypeOf(name)
  IN IF label = "none" \/ label \in DOMAIN detected THEN detected
     ELSE Put(detected, label, name)

\* one iteration of the forEach of detectScanTypes
DetectOne(detected, name) ==
  LET label == ScanTypeOf(name)
  IN IF label = "none" THEN detected ELSE Put(detected, label, name)

RECURSIVE DetectFrom(_, _, _)
DetectFrom(detected, fileList, i) ==
  IF i > Len(fileList) THEN detected
  ELSE DetectFrom(DetectOne(detected, fileList[i]), fileList, i + 1)

detectScanTypes(fileList) == DetectFrom(EmptyMap, fileList, 1)

\* ------------------------------------------------------------------------
\* CaseUpload: state
\* ------------------------------------------------------------------------
\* inputFiles is the FileList held by the hidden file input (e.target.files);
\* caseId, files, detectedScans, isUploading are the useState cells of
\* CaseUpload; calls holds one record per handleUpload invocation: the
\* values its closure captured, how far it has run, the fetch() calls it has
\* made (sent) and the notification it has raised (toast)
VARIABLES inputFiles, caseId, files, detectedScans, isUploading, calls

\* cases, filteredCases, isLoading are useState cells of CaseHistory; cycles
\* holds one record per fetchCases invocation (the list it received, how each
\* detail fetch ended, the notification it raised); writer is the invocation
\* whose setCases produced the current view (0: the initial empty view);
\* mounted says whether Dashboard still renders the component
VARIABLES cases, filteredCases, isLoading, cycles, writer, mounted

\* the useState cell behind the search field of CaseHistory
VARIABLES searchTerm

\* isAuthenticated is the useState cell of Index, authFlag the value stored
\* under medical_ai_auth in localStorage, effectRan whether the mount effect
\* of the current Index instance has run, authCalls the calls made so far
VARIABLES isAuthenticated, authFlag, effectRan, authCalls

\* one record per cancel request of the monitoring view: the case it names,
\* how far it has run, how the backend answered, the notification raised
VARIABLES cancels

authVars == <<isAuthenticated, authFlag, effectRan, authCalls>>
formVars == <<inputFiles, caseId, files, detectedScans, isUploading>>
uploadVars == <<calls>>
historyVars == <<cases, filteredCases, isLoading, cycles, writer, mounted, cancels, searchTerm>>
vars == <<formVars, uploadVars, historyVars, authVars>>

\* useState initial values; files = null is the empty list
InitForm ==
  /\ caseId = <<>>
  /\ files = <<>>
  /\ detectedScans = EmptyMap
  /\ isUploading = FALSE
  /\ calls = <<>>

\* useState initial values of CaseHistory
InitHistoryView ==
  /\ cases = <<>>
  /\ filteredCases = <<>>
  /\ isLoading = TRUE
  /\ cycles = <<>>
  /\ writer = 0
  /\ mounted = TRUE
  /\ cancels = <<>>
  /\ searchTerm = <<>>

\* Index shows the Dashboard: the user is signed in
InitSignedIn ==
  /\ isAuthenticated = TRUE
  /\ authFlag = "authenticated"
  /\ effectRan = TRUE
  /\ authCalls = <<>>

\* the change event of the file input, delivered with e.target.files
handleFileSelect(selectedFiles) ==
  /\ inputFiles' = selectedFiles
  /\ IF Len(selectedFiles) > 0
       THEN /\ files' = selectedFiles
            /\ detectedScans' = detectScanTypes(selectedFiles)
       ELSE UNCHANGED <<files, detectedScans>>
  /\ UNCHANGED <<caseId, isUploading, uploadVars, historyVars, authVars>>

\* ------------------------------------------------------------------------
\* The classifier on its own
\* ------------------------------------------------------------------------
\* a folder has been chosen and its change event is about to be delivered
InitClassify == InitForm /\ InitHistoryView /\ InitSignedIn /\ inputFiles \in ClassifyInputs

NextClassify == handleFileSelect(inputFiles)

SpecClassify == InitClassify /\ [][NextClassify]_vars

\* the change event has been handled: the form holds the chosen files
Classified == Len(files) > 0 /\ files = inputFiles

Labels == {allScans[i] : i \in DOMAIN allScans}

\* label l is assigned the file at position i
AssignedTo(l, i) == l \in DOMAIN detectedScans /\ detectedScans[l] = files[i]

\* C1 (as claimed): rules tried in the order T1CE, T1, T2, FLAIR: every file
\* whose lower-cased name contains "t1ce", "t1_ce" or "t1-ce" is assigned to
\* T1CE and to no other label, also when its name satisfies the T2 rule.
C1_T1CEFirst ==
  Classified =>
    \A i \in 1..Len(files) :
      T1CERule(ToLowerCase(files[i])) =>
        /\ "T1CE" \in DOMAIN detectedScans
        /\ \A l \in Labels : AssignedTo(l, i) => l = "T1CE"

\* the positions of the files the classifier puts under label l
PositionsOf(l) == {i \in 1..Len(files) : ScanTypeOf(files[i]) = l}

Last(S) == CHOOSE i \in S : \A j \in S : j <= i

\* C6: when several files of one selection fall under the same label, the
\* label holds the last of them, under its original (not lower-cased) name;
\* a label with no file holds nothing.
C6_LastWins ==
  Classified =>
    \A l \in Labels :
      IF PositionsOf(l) = {} THEN l \notin DOMAIN detectedScans
      ELSE AssignedTo(l, Last(PositionsOf(l)))

\* two different files under one label, the later one with capital letters
C6_Witness ==
  /\ Classified
  /\ \E l \in Labels : \E i, j \in PositionsOf(l) :
       /\ i < j /\ j = Last(PositionsOf(l))
       /\ files[i] # files[j]
       /\ files[j] # ToLowerCase(files[j])
       /\ detectedScans[l] = files[j]

\* a file that satisfies none of the four conditions
Unclassified(name) ==
  LET filename == ToLowerCase(name)
  IN ~T1Rule(filename) /\ ~T2Rule(filename) /\ ~T1CERule(filename) /\ ~FLAIRRule(filename)

Classifiable(name) == ~Unclassified(name)

\* C7: a name containing "t10" is never assigned to T1, a name containing
\* "t20" or "t2*" never to T2, and the files that match no rule change
\* nothing: the assignment is that of the list without them.
C7_Guards ==
  Classified =>
    /\ \A i \in 1..Len(files) :
         LET filename == ToLowerCase(files[i])
         IN /\ Includes(filename, t10) => ~AssignedTo("T1", i)
            /\ (Includes(filename, t20) \/ Includes(filename, t2star)) => ~AssignedTo("T2", i)
    /\ detectedScans = detectScanTypes(SelectSeq(files, Classifiable))

\* a list with a classified file, a "t10" file and a "t2*" file
C7_Witness ==
  /\ Classified
  /\ detectedScans # EmptyMap
  /\ \E i, j \in 1..Len(files) :
       /\ Includes(ToLowerCase(files[i]), t10) /\ Unclassified(files[i])
       /\ Includes(ToLowerCase(files[j]), t2star) /\ Unclassified(files[j])

\* ------------------------------------------------------------------------
\* CaseUpload: validateCaseId and handleUpload
\* ------------------------------------------------------------------------
IsSpace(c) == c = " "

RECURSIVE TrimStart(_)
TrimStart(s) ==
  IF s # <<>> /\ IsSpace(Head(s)) THEN TrimStart(Tail(s)) ELSE s

RECURSIVE TrimEnd(_)
TrimEnd(s) ==
  IF s # <<>> /\ IsSpace(s[Len(s)]) THEN TrimEnd(SubSeq(s, 1, Len(s) - 1)) ELSE s

\* String.prototype.trim
Trim(s) == TrimEnd(TrimStart(s))

\* what the user can type into the case id field
CaseIdInputs == { <<" ">>, <<"C", "1">> }

\* the folders the user can choose in the upload form
UploadInputs ==
  { << <<"t", "1">> >>, << <<"x">> >>, << <<"t", "1">>, <<"T", "2">> >> }

\* how GET /check_case_id/{id} can end: {exists: true}, {exists: false},
\* a rejected fetch, a body that response.json() cannot decode
CheckOutcomes == {"exists", "absent", "transport_error", "bad_body"}

\* how POST /api/upload can end: 2xx, non-2xx with a JSON body, a body that
\* response.json() cannot decode, a rejected fetch
UploadOutcomes == {"ok", "non2xx", "bad_body", "transport_error"}

NoToast == [title |-> "none", description |-> <<>>]
ToastEnterCaseId == [title |-> "Error", description |-> <<"Please enter a case ID">>]
ToastSelectFiles == [title |-> "Error", description |-> <<"Please select MRI scan files">>]
ToastCaseIdExists ==
  [title |-> "Error",
   description |-> <<"Case ID already exists. Please choose a different ID.">>]
\* `Please include: ${missingRequired.join(', ')}`: the prefix, then the items
ToastMissing(missingRequired) ==
  [title |-> "Missing Required Scans",
   description |-> <<"Please include: ">> \o missingRequired]
ToastUploadSuccessful ==
  [title |-> "Upload Successful",
   description |-> <<"Processing started. Check the Processing tab for updates.">>]
\* error.message: result.message || 'Upload failed', or the message of the
\* error thrown by fetch or by response.json()
ToastUploadFailed(outcome) ==
  [title |-> "Upload Failed",
   description |->
     CASE outcome = "non2xx" -> <<"Upload failed">>
       [] outcome = "bad_body" -> <<"Unexpected token">>
       [] OTHER -> <<"Failed to fetch">>]

\* (mutant) a catch block that reports the id as taken
validateCaseIdFailClosed(outcome) == outcome = "absent"

\* validateCaseId: !data.exists, and true from the catch block
validateCaseId(outcome) ==
  CASE outcome = "exists" -> FALSE
    [] outcome = "absent" -> TRUE
    [] OTHER -> TRUE

\* (mutant) a filter that never finds a label missing
MissingRequiredNone(detected) == <<>>

\* (mutant) a filter that reports every required label
MissingRequiredAll(detected) == requiredScans

Missing(detected, scan) == scan \notin DOMAIN detected \/ detected[scan] = <<>>

\* requiredScans.filter(scan => !detectedScans[scan])
MissingRequired(detected) ==
  SelectSeq(requiredScans, LAMBDA scan : Missing(detected, scan))

\* (mutant) the file check moved behind the existence query
LocalCheckIdOnly(id, fileList) ==
  IF Trim(id) = <<>> THEN ToastEnterCaseId ELSE NoToast

\* the two checks handleUpload makes before its first await
LocalCheck(id, fileList) ==
  IF Trim(id) = <<>> THEN ToastEnterCaseId
  ELSE IF Len(fileList) = 0 THEN ToastSelectFiles
  ELSE NoToast

\* fetch(`http://localhost:5000/check_case_id/${id}`)
CheckRequest(id) ==
  [endpoint |-> "check_case_id", case_id |-> id, files |-> <<>>]
\* fetch('http://localhost:5000/api/upload', {method: 'POST', body: formData})
UploadRequest(id, fileList) ==
  [endpoint |-> "upload", case_id |-> id, files |-> fileList]

\* a handleUpload invocation: the values its closure captured and its progress
NewCall(pc, toast) ==
  [pc |-> pc, caseId |-> caseId, files |-> files, detectedScans |-> detectedScans,
   check |-> IF pc = "awaitCheck" THEN "pending" ELSE "none",
   upload |-> "none", toast |-> toast,
   sent |-> IF pc = "awaitCheck" THEN <<CheckRequest(caseId)>> ELSE <<>>]

\* onChange of the case id field, which is disabled while isUploading
setCaseId(value) ==
  /\ ~isUploading
  /\ caseId' = value
  /\ UNCHANGED <<inputFiles, files, detectedScans, isUploading, uploadVars, historyVars, authVars>>

\* handleUpload up to its first await (lines 493-513)
handleUpload ==
  /\ Len(calls) < MaxUploads
  /\ LET toast == LocalCheck(caseId, files)
     IN IF toast # NoToast
          THEN calls' = Append(calls, NewCall("returned", toast))
          ELSE calls' = Append(calls, NewCall("awaitCheck", NoToast))
  /\ UNCHANGED <<formVars, historyVars, authVars>>

\* validateCaseId settles and handleUpload runs on to its second await
\* (lines 513-545)
checkSettles(i, outcome) ==
  /\ calls[i].pc = "awaitCheck"
  /\ LET c == calls[i]
         isUnique == validateCaseId(outcome)
         missingRequired == MissingRequired(c.detectedScans)
     IN IF ~isUnique
          THEN /\ calls' = [calls EXCEPT ![i].pc = "returned", ![i].check = outcome,
                                         ![i].toast = ToastCaseIdExists]
               /\ UNCHANGED isUploading
        ELSE IF Len(missingRequired) > 0
          THEN /\ calls' = [calls EXCEPT ![i].pc = "returned", ![i].check = outcome,
                                         ![i].toast = ToastMissing(missingRequired)]
               /\ UNCHANGED isUploading
        ELSE /\ calls' = [calls EXCEPT ![i].pc = "awaitUpload", ![i].check = outcome,
                                       ![i].upload = "pending",
                                       ![i].sent = Append(@, UploadRequest(c.caseId, c.files))]
             /\ isUploading' = TRUE
  /\ UNCHANGED <<inputFiles, caseId, files, detectedScans, historyVars, authVars>>

\* (mutant) an upload that resets the form however the request ended
uploadSettlesAlwaysResets(i, outcome) ==
  /\ calls[i].pc = "awaitUpload"
  /\ calls' = [calls EXCEPT ![i].pc = "returned", ![i].upload = outcome,
                            ![i].toast = IF outcome = "ok" THEN ToastUploadSuccessful
                                         ELSE ToastUploadFailed(outcome)]
  /\ caseId' = <<>>
  /\ files' = <<>>
  /\ detectedScans' = EmptyMap
  /\ inputFiles' = <<>>
  /\ isUploading' = FALSE
  /\ UNCHANGED <<historyVars, authVars>>

\* (mutant) an upload without its finally block: the flag is cleared on the
\* success path only
uploadSettlesNoFinally(i, outcome) ==
  /\ calls[i].pc = "awaitUpload"
  /\ IF outcome = "ok"
       THEN /\ calls' = [calls EXCEPT ![i].pc = "returned", ![i].upload = outcome,
                                      ![i].toast = ToastUploadSuccessful]
            /\ caseId' = <<>>
            /\ files' = <<>>
            /\ detectedScans' = EmptyMap
            /\ inputFiles' = <<>>
            /\ isUploading' = FALSE
       ELSE /\ calls' = [calls EXCEPT ![i].pc = "returned", ![i].upload = outcome,
                                      ![i].toast = ToastUploadFailed(outcome)]
            /\ UNCHANGED <<caseId, files, detectedScans, inputFiles, isUploading>>
  /\ UNCHANGED <<historyVars, authVars>>

\* the upload request settles: lines 550-578, the finally block included
uploadSettles(i, outcome) ==
  /\ calls[i].pc = "awaitUpload"
  /\ IF outcome = "ok"
       THEN /\ calls' = [calls EXCEPT ![i].pc = "returned", ![i].upload = outcome,
                                      ![i].toast = ToastUploadSuccessful]
            /\ caseId' = <<>>
            /\ files' = <<>>
            /\ detectedScans' = EmptyMap
            /\ inputFiles' = <<>>
       ELSE /\ calls' = [calls EXCEPT ![i].pc = "returned", ![i].upload = outcome,
                                      ![i].toast = ToastUploadFailed(outcome)]
            /\ UNCHANGED <<caseId, files, detectedScans, inputFiles>>
  /\ isUploading' = FALSE
  /\ UNCHANGED <<historyVars, authVars>>

InitUpload == InitForm /\ InitHistoryView /\ InitSignedIn /\ inputFiles = <<>>

NextUpload ==
  \/ \E value \in CaseIdInputs : setCaseId(value)
  \/ \E fileList \in UploadInputs : handleFileSelect(fileList)
  \/ handleUpload
  \/ \E i \in DOMAIN calls : \E outcome \in CheckOutcomes : checkSettles(i, outcome)
  \/ \E i \in DOMAIN calls : \E outcome \in UploadOutcomes : uploadSettles(i, outcome)

SpecUpload == InitUpload /\ [][NextUpload]_vars

\* the fetch() calls invocation i has made to an endpoint
RequestsOf(i, endpoint) ==
  {k \in DOMAIN calls[i].sent : calls[i].sent[k].endpoint = endpoint}

CheckSent(i) == RequestsOf(i, "check_case_id") # {}
UploadSent(i) == RequestsOf(i, "upload") # {}

\* the labels among T1, T2 with no filename in the assignment of invocation i
Unassigned(i) == {l \in {"T1", "T2"} : l \notin DOMAIN calls[i].detectedScans}

\* C2: POST /api/upload is sent by an invocation only if, for the values
\* the invocation holds, the trimmed case id is non-empty, a file is
\* selected, the existence query did not report the id as existing and both
\* T1 and T2 have a filename; the request carries that case id and files.
C2_UploadGated ==
  \A i \in DOMAIN calls :
    UploadSent(i) =>
      /\ Trim(calls[i].caseId) # <<>>
      /\ Len(calls[i].files) > 0
      /\ calls[i].check \in {"absent", "transport_error", "bad_body"}
      /\ Unassigned(i) = {}
      /\ \A k \in RequestsOf(i, "upload") :
           /\ calls[i].sent[k].case_id = calls[i].caseId
           /\ calls[i].sent[k].files = calls[i].files

\* an upload is on its way while another invocation was refused one
C2_Witness ==
  \E i, j \in DOMAIN calls :
    /\ UploadSent(i) /\ calls[i].pc = "awaitUpload"
    /\ calls[j].pc = "returned" /\ ~UploadSent(j)
    /\ calls[j].toast.title = "Missing Required Scans"

\* C3 (as claimed): the existence query comes second, before the file
\* check: an invocation with a non-empty case id has issued the query by
\* the time it returns, and with an existing id and no file it reports the
\* duplicate id.
C3_QueryBeforeFileCheck ==
  \A i \in DOMAIN calls :
    (calls[i].pc = "returned" /\ Trim(calls[i].caseId) # <<>>) =>
      /\ CheckSent(i)
      /\ calls[i].check = "exists" => calls[i].toast = ToastCaseIdExists

\* C3 (amended): the checks run in the order case id, files, existence
\* query, required labels, stopping at the first that fails: an empty case
\* id or an empty file set is reported with no existence query issued, a
\* duplicate id is reported before the labels are looked at, and at most one
\* existence query is made.
C3_CheckOrder ==
  \A i \in DOMAIN calls :
    LET c == calls[i]
    IN /\ Cardinality(RequestsOf(i, "check_case_id")) <= 1
       /\ IF Trim(c.caseId) = <<>>
            THEN c.pc = "returned" /\ c.toast = ToastEnterCaseId /\ ~CheckSent(i)
          ELSE IF Len(c.files) = 0
            THEN c.pc = "returned" /\ c.toast = ToastSelectFiles /\ ~CheckSent(i)
          ELSE /\ CheckSent(i)
               /\ c.check = "pending" => c.pc = "awaitCheck" /\ c.toast = NoToast
               /\ c.check = "exists" =>
                    c.pc = "returned" /\ c.toast = ToastCaseIdExists /\ ~UploadSent(i)
               /\ (c.check \in {"absent", "transport_error", "bad_body"} /\ Unassigned(i) # {}) =>
                    c.pc = "returned" /\ c.toast.title = "Missing Required Scans"

\* a non-empty id with no file is refused without a query, and a duplicate
\* id is reported although a required label is missing
C3_Witness ==
  \E i, j \in DOMAIN calls :
    /\ Trim(calls[i].caseId) # <<>> /\ Len(calls[i].files) = 0
    /\ calls[i].toast = ToastSelectFiles /\ ~CheckSent(i)
    /\ calls[j].check = "exists" /\ Unassigned(j) # {}
    /\ calls[j].toast = ToastCaseIdExists

\* C4: a failed existence query (rejected fetch or undecodable body) counts
\* as "available": the invocation goes on to the label check and the upload
\* as it does after exists = false, and "already exists" is reported only
\* after exists = true.
C4_FailOpen ==
  \A i \in DOMAIN calls :
    LET c == calls[i]
    IN /\ c.toast = ToastCaseIdExists <=> c.check = "exists"
       /\ c.check \in {"absent", "transport_error", "bad_body"} =>
            IF Unassigned(i) = {}
              THEN UploadSent(i) /\ c.upload # "none"
              ELSE c.pc = "returned" /\ ~UploadSent(i)
                   /\ c.toast.title = "Missing Required Scans"

\* one query failed in transport, one returned an undecodable body: the
\* first invocation went on to upload, the second to the label check
C4_Witness ==
  \E i, j \in DOMAIN calls :
    /\ calls[i].check = "transport_error" /\ UploadSent(i)
    /\ calls[j].check = "bad_body" /\ calls[j].toast.title = "Missing Required Scans"

\* the labels a "Missing Required Scans" notification names
Named(toast) == {toast.description[k] : k \in 2..Len(toast.description)}

\* C5: a failed required-label check names exactly the labels among T1, T2
\* that have no filename in the assignment, and it fails exactly when there
\* is such a label.
C5_NamesMissing ==
  \A i \in DOMAIN calls :
    LET c == calls[i]
    IN /\ c.toast.title = "Missing Required Scans" =>
            /\ Head(c.toast.description) = "Please include: "
            /\ Named(c.toast) = Unassigned(i)
            /\ Len(c.toast.description) = 1 + Cardinality(Unassigned(i))
            /\ Unassigned(i) # {}
       /\ (c.check \in {"absent", "transport_error", "bad_body"} /\ Unassigned(i) # {}) =>
            c.toast.title = "Missing Required Scans"

\* T1 assigned and T2 not: T2 alone is named; neither assigned: both are
C5_Witness ==
  \E i, j \in DOMAIN calls :
    /\ "T1" \in DOMAIN calls[i].detectedScans
    /\ calls[i].toast.description = <<"Please include: ", "T2">>
    /\ calls[j].detectedScans = EmptyMap
    /\ calls[j].toast.description = <<"Please include: ", "T1", "T2">>

\* ------------------------------------------------------------------------
\* CaseHistory: fetchCases
\* ------------------------------------------------------------------------
\* an element of data.cases as GET /cases returns it
Summary(id, status, date) == [case_id |-> id, status |-> status, date |-> date]

\* the bodies {cases: [...]} the backend answers GET /cases with
ListResponses ==
  { <<>>,
    << Summary("A", "done", "last_week") >>,
    << Summary("A", "done", "today"), Summary("B", "processing", "today") >>,
    << Summary("B", "error", "last_week"), Summary("A", "done", "today") >>,
    << Summary("A", "cancelled", "today"), Summary("B", "processing", "last_week") >>,
    << Summary("A", "done", "today"), Summary("B", "done", "last_week") >> }

\* how GET /cases can end: a body with cases, a JSON body without cases (an
\* error message), a rejected fetch, a body response.json() cannot decode
ListOutcomes ==
  {[kind |-> "cases", cases |-> l] : l \in ListResponses}
    \cup {[kind |-> k, cases |-> <<>>] : k \in {"no_cases", "transport_error", "bad_body"}}

\* how GET /api/results/{case_id} can end: one of the three status-tagged
\* payloads, a rejected fetch, a body response.json() cannot decode
DetailOutcomes == {"done", "processing", "error", "transport_error", "bad_body"}

\* resultData for the three payloads
Payload(outcome) ==
  CASE outcome = "done" ->
         [status |-> "done", tumor_detection |-> "Tumor Detected", tumor_type |-> "Glioma"]
    [] outcome = "processing" ->
         [status |-> "processing", percentage |-> "40", step |-> "segmentation"]
    [] OTHER -> [status |-> "error", error |-> "X"]

\* the value undefined
Undefined == [undefined |-> TRUE]

\* {...case_, key: value}
With(case_, key, value) ==
  [f \in DOMAIN case_ \cup {key} |-> IF f = key THEN value ELSE case_[f]]

\* (mutant) a callback that copies the detail's error field into the record
MergeWithErrorMessage(case_, outcome) ==
  IF case_.status = "done" /\ outcome \notin {"transport_error", "bad_body"}
    THEN LET resultData == Payload(outcome)
         IN IF resultData.status = "error"
              THEN With(With(case_, "results", Undefined), "errorMessage", <<resultData.error>>)
              ELSE With(case_, "results",
                        IF resultData.status = "done" THEN resultData ELSE Undefined)
    ELSE case_

\* (mutant) a callback that attaches whatever payload a done summary gets
MergeAnyPayload(case_, outcome) ==
  IF case_.status = "done" /\ outcome \notin {"transport_error", "bad_body"}
    THEN With(case_, "results", Payload(outcome))
    ELSE case_

\* the async callback given to data.cases.map (lines 117-132), for a summary
\* and the way its detail fetch ended
Merge(case_, outcome) ==
  IF case_.status = "done"
    THEN IF outcome \in {"transport_error", "bad_body"}
           THEN case_
           ELSE LET resultData == Payload(outcome)
                IN With(case_, "results",
                        IF resultData.status = "done" THEN resultData ELSE Undefined)
    ELSE case_

\* the summaries the reconciler of the specification keeps
Relevant(case_) ==
  \/ case_.status \in {"processing", "error", "cancelled"}
  \/ case_.status = "done" /\ case_.date = "today"

\* (mutant) a map over the relevant summaries only
MapCasesRelevantOnly(list, details) ==
  LET kept == SelectSeq([k \in 1..Len(list) |-> <<list[k], details[k]>>],
                        LAMBDA pair : Relevant(pair[1]))
  IN [k \in 1..Len(kept) |-> Merge(kept[k][1], kept[k][2])]

\* casesWithResults: Promise.all(data.cases.map(...)) once every callback
\* has settled
MapCases(list, details) ==
  [k \in 1..Len(list) |-> Merge(list[k], details[k])]

\* (mutant) a map that fetches details only while the list holds a
\* processing summary
StartDetailsWhileActive(list) ==
  [k \in 1..Len(list) |->
     IF list[k].status = "done" /\ \E j \in 1..Len(list) : list[j].status = "processing"
       THEN "pending" ELSE "not_fetched"]

\* (mutant) a map that fetches the detail of every summary
StartDetailsForAll(list) ==
  [k \in 1..Len(list) |-> "pending"]

\* the detail fetches data.cases.map starts: one per done summary
StartDetails(list) ==
  [k \in 1..Len(list) |-> IF list[k].status = "done" THEN "pending" ELSE "not_fetched"]

ToastFetchFailed == [title |-> "Error", description |-> <<"Failed to fetch case history">>]

\* a fetchCases invocation up to its first await (line 111)
StartCycle(trigger) ==
  cycles' = Append(cycles,
    [pc |-> "awaitList", trigger |-> trigger,
     got |-> "pending", list |-> <<>>, details |-> <<>>, toast |-> NoToast])

\* fetchCases called by trigger, while fewer than limit invocations exist
fetchCases(trigger, limit) ==
  /\ Len(cycles) < limit
  /\ StartCycle(trigger)
  /\ UNCHANGED <<cases, filteredCases, isLoading, writer, mounted, cancels,
                 searchTerm, formVars, uploadVars, authVars>>

\* (mutant) an effect without the empty dependency list: it runs again
\* after every render
mountEffectEveryRender == mounted /\ fetchCases("mount", MaxCycles)

\* useEffect(() => { fetchCases(); }, []): once, after the first render
mountEffect == Len(cycles) = 0 /\ fetchCases("mount", MaxCycles)

\* a click on the Refresh button, which is rendered once isLoading is false
\* and is not disabled while an invocation is running
Refresh(limit) == mounted /\ ~isLoading /\ fetchCases("refresh", limit)

\* Dashboard stops rendering CaseHistory: another tab is chosen or the user
\* logs out; the mount effect has run by then
unmount ==
  /\ mounted
  /\ Len(cycles) > 0
  /\ mounted' = FALSE
  /\ UNCHANGED <<cases, filteredCases, isLoading, cycles, writer, cancels,
                 searchTerm, formVars, uploadVars, authVars>>

\* (mutant) a write that patches the view: the records of the new list, and
\* behind them the old records whose case the new list does not name
WriteViewPatched(c, list, details) ==
  LET fresh == MapCases(list, details)
      stale == SelectSeq(cases,
                 LAMBDA old : \A k \in DOMAIN list : list[k].case_id # old.case_id)
  IN /\ cases' = fresh \o stale
     /\ filteredCases' = fresh \o stale
     /\ isLoading' = FALSE
     /\ writer' = c

\* setCases / setFilteredCases (lines 135-136) and the finally block
WriteView(c, list, details) ==
  /\ cases' = MapCases(list, details)
  /\ filteredCases' = MapCases(list, details)
  /\ isLoading' = FALSE
  /\ writer' = c

\* the list request of invocation c settles (lines 111-117, and on to the
\* end when no detail fetch is started or the request failed)
listSettles(c, outcome) ==
  /\ cycles[c].pc = "awaitList"
  /\ IF outcome.kind = "cases"
       THEN LET details == StartDetails(outcome.cases)
            IN IF \E k \in DOMAIN details : details[k] = "pending"
                 THEN /\ cycles' = [cycles EXCEPT ![c].pc = "awaitDetails",
                                                  ![c].got = outcome.kind,
                                                  ![c].list = outcome.cases,
                                                  ![c].details = details]
                      /\ UNCHANGED <<cases, filteredCases, isLoading, writer>>
                 ELSE /\ cycles' = [cycles EXCEPT ![c].pc = "returned",
                                                  ![c].got = outcome.kind,
                                                  ![c].list = outcome.cases,
                                                  ![c].details = details]
                      /\ WriteView(c, outcome.cases, details)
     ELSE IF outcome.kind = "no_cases"
       THEN /\ cycles' = [cycles EXCEPT ![c].pc = "returned", ![c].got = outcome.kind]
            /\ isLoading' = FALSE
            /\ UNCHANGED <<cases, filteredCases, writer>>
     ELSE /\ cycles' = [cycles EXCEPT ![c].pc = "returned", ![c].got = outcome.kind,
                                      ![c].toast = ToastFetchFailed]
          /\ isLoading' = FALSE
          /\ UNCHANGED <<cases, filteredCases, writer>>
  /\ UNCHANGED <<mounted, cancels, searchTerm, formVars, uploadVars, authVars>>

\* (mutant) callbacks that each write their record into the live view as soon
\* as their detail fetch settles
detailSettlesWritesThrough(c, k, outcome) ==
  /\ cycles[c].pc = "awaitDetails"
  /\ cycles[c].details[k] = "pending"
  /\ LET details == [cycles[c].details EXCEPT ![k] = outcome]
         record == Merge(cycles[c].list[k], outcome)
         patched == IF k \in DOMAIN cases
                      THEN [cases EXCEPT ![k] = record]
                      ELSE Append(cases, record)
     IN /\ cycles' = [cycles EXCEPT ![c].details = details,
                                    ![c].pc = IF \E j \in DOMAIN details : details[j] = "pending"
                                                THEN "awaitDetails" ELSE "returned"]
        /\ cases' = patched
        /\ filteredCases' = patched
        /\ writer' = c
        /\ isLoading' = IF \E j \in DOMAIN details : details[j] = "pending"
                          THEN isLoading ELSE FALSE
  /\ UNCHANGED <<mounted, cancels, searchTerm, formVars, uploadVars, authVars>>

\* (mutant) a callback without its own try/catch: a failed detail fetch
\* rejects Promise.all and the outer catch takes over
detailSettlesFailFast(c, k, outcome) ==
  /\ cycles[c].pc = "awaitDetails"
  /\ cycles[c].details[k] = "pending"
  /\ LET details == [cycles[c].details EXCEPT ![k] = outcome]
     IN IF outcome \in {"transport_error", "bad_body"}
          THEN /\ cycles' = [cycles EXCEPT ![c].details = details, ![c].pc = "returned",
                                           ![c].toast = ToastFetchFailed]
               /\ isLoading' = FALSE
               /\ UNCHANGED <<cases, filteredCases, writer>>
          ELSE IF \E j \in DOMAIN details : details[j] = "pending"
            THEN /\ cycles' = [cycles EXCEPT ![c].details = details]
                 /\ UNCHANGED <<cases, filteredCases, isLoading, writer>>
            ELSE /\ cycles' = [cycles EXCEPT ![c].details = details, ![c].pc = "returned"]
                 /\ WriteView(c, cycles[c].list, details)
  /\ UNCHANGED <<mounted, cancels, searchTerm, formVars, uploadVars, authVars>>

\* the detail fetch for the k-th summary of invocation c settles (lines
\* 120-129); the last one to settle resolves Promise.all (lines 135-147)
detailSettles(c, k, outcome) ==
  /\ cycles[c].pc = "awaitDetails"
  /\ cycles[c].details[k] = "pending"
  /\ LET details == [cycles[c].details EXCEPT ![k] = outcome]
     IN IF \E j \in DOMAIN details : details[j] = "pending"
          THEN /\ cycles' = [cycles EXCEPT ![c].details = details]
               /\ UNCHANGED <<cases, filteredCases, isLoading, writer>>
          ELSE /\ cycles' = [cycles EXCEPT ![c].details = details, ![c].pc = "returned"]
               /\ WriteView(c, cycles[c].list, details)
  /\ UNCHANGED <<mounted, cancels, searchTerm, formVars, uploadVars, authVars>>

InitHistory == InitForm /\ InitHistoryView /\ InitSignedIn /\ inputFiles = <<>>

NextHistory ==
  \/ mountEffect
  \/ Refresh(MaxCycles)
  \/ \E c \in DOMAIN cycles : \E outcome \in ListOutcomes : listSettles(c, outcome)
  \/ \E c \in DOMAIN cycles : \E k \in DOMAIN cycles[c].details :
       \E outcome \in DetailOutcomes : detailSettles(c, k, outcome)

SpecHistory == InitHistory /\ [][NextHistory]_vars

\* the view on screen was produced by a fetchCases invocation
Produced == writer # 0

\* the list response and the detail outcomes behind the current view
ViewList == cycles[writer].list
ViewDetails == cycles[writer].details

\* the summary part of a view record
SummaryOf(record) == Summary(record.case_id, record.status, record.date)

ViewSummaries == [k \in 1..Len(cases) |-> SummaryOf(cases[k])]

HasResult(record) == "results" \in DOMAIN record /\ record.results # Undefined

\* the enrichments a view record carries
Enrichments(record) ==
  {f \in {"progress", "errorMessage"} : f \in DOMAIN record}
    \cup (IF HasResult(record) THEN {"results"} ELSE {})

\* C8 (as claimed): the view holds exactly the relevant summaries of the
\* list response: those with status processing, error or cancelled, and
\* the done ones created within the last 24 hours.
C8_OnlyRelevant ==
  Produced => ViewSummaries = SelectSeq(ViewList, Relevant)

\* C8 (amended): the view holds every summary of the list response, in the
\* order of the response, whatever its status and age; a done summary
\* older than 24 hours is in the view like any other.
C8_AllSummaries ==
  Produced =>
    /\ Len(cases) = Len(ViewList)
    /\ ViewSummaries = ViewList

\* a view with a done summary from last week next to a done one from today
C8_Witness ==
  /\ Produced
  /\ \E j, k \in DOMAIN cases :
       /\ cases[j].status = "done" /\ cases[j].date = "last_week"
       /\ cases[k].status = "done" /\ cases[k].date = "today"

\* the view records whose summary is done and whose detail payload says error
DoneWithErrorDetail ==
  {k \in DOMAIN cases : ViewList[k].status = "done" /\ ViewDetails[k] = "error"}

\* C9 (as claimed): for a done summary whose detail fetch returns
\* {status: "error", error: "X"}, the merged record carries errorMessage "X"
\* and no result.
C9_ErrorMessageFromDetail ==
  Produced =>
    \A k \in DoneWithErrorDetail :
      /\ ~HasResult(cases[k])
      /\ "errorMessage" \in DOMAIN cases[k]
      /\ cases[k].errorMessage = <<"X">>

\* C9 (amended): for a done summary, whether the record carries a result is
\* decided by the detail payload's status: a result exactly when that status
\* is done; with {status: "error", error: "X"} the record carries no result
\* and no errorMessage either.
C9_DetailStatusDecides ==
  Produced =>
    /\ \A k \in DoneWithErrorDetail :
         ~HasResult(cases[k]) /\ "errorMessage" \notin DOMAIN cases[k]
    /\ \A k \in DOMAIN cases :
         ViewList[k].status = "done" =>
           (HasResult(cases[k]) <=>
              (ViewDetails[k] \notin {"transport_error", "bad_body"}
                 /\ Payload(ViewDetails[k]).status = "done"))

\* a view with a done summary whose detail payload reported an error
C9_Witness ==
  /\ Produced
  /\ \E k \in DoneWithErrorDetail : cases[k].results = Undefined

\* C10: a view record carries a result only if its detail fetch succeeded
\* with a payload of status done, and then the result is that payload; a
\* record whose detail payload is processing or error, or whose detail fetch
\* failed or was not made, carries none; no record carries more than one of
\* progress, result, errorMessage.
C10_ResultOnlyFromDoneDetail ==
  Produced =>
    \A k \in DOMAIN cases :
      /\ HasResult(cases[k]) =>
           ViewDetails[k] = "done" /\ cases[k].results = Payload("done")
      /\ ViewDetails[k] \in {"processing", "error", "transport_error", "bad_body", "not_fetched"} =>
           ~HasResult(cases[k])
      /\ Cardinality(Enrichments(cases[k])) <= 1

\* one record with a result next to one whose detail fetch failed
C10_Witness ==
  /\ Produced
  /\ \E j, k \in DOMAIN cases :
       /\ HasResult(cases[j])
       /\ ViewDetails[k] \in {"transport_error", "bad_body"} /\ ~HasResult(cases[k])

\* the view records whose summary says processing
ProcessingSummaries == {k \in DOMAIN cases : ViewList[k].status = "processing"}

\* C11 (as claimed): for a summary with status processing the cycle fetches
\* the detail record, and with a processing detail payload of percentage 40
\* the merged record carries progress.percentage = 40.
C11_ProgressFromDetail ==
  Produced =>
    \A k \in ProcessingSummaries :
      /\ ViewDetails[k] # "not_fetched"
      /\ ViewDetails[k] = "processing" =>
           /\ "progress" \in DOMAIN cases[k]
           /\ cases[k].progress.percentage = Payload("processing").percentage

\* C11 (amended): fetchCases fetches the detail record of done summaries
\* only: for a summary with status processing no detail fetch is made and
\* the view record is the bare summary; a done summary whose detail payload
\* says processing (percentage 40) gets results undefined; no view record
\* carries progress.
C11_NoProgress ==
  Produced =>
    /\ \A k \in ProcessingSummaries :
         ViewDetails[k] = "not_fetched" /\ cases[k] = ViewList[k]
    /\ \A k \in DOMAIN cases :
         /\ "progress" \notin DOMAIN cases[k]
         /\ ViewList[k].status = "done" /\ ViewDetails[k] = "processing" =>
              cases[k].results = Undefined

\* a view with a processing summary next to a done summary whose detail
\* payload says processing
C11_Witness ==
  /\ Produced
  /\ ProcessingSummaries # {}
  /\ \E k \in DOMAIN cases :
       ViewList[k].status = "done" /\ ViewDetails[k] = "processing"


\* the ways a detail fetch fails: a rejected fetch, an undecodable payload
DetailFailures == {"transport_error", "bad_body"}

\* invocation c leaves its Promise.all in this step
JoinCompletes(c) == cycles[c].pc = "awaitDetails" /\ cycles'[c].pc = "returned"

\* C12: when the detail fetches of one invocation have all settled, some of
\* them failed (rejected fetch or undecodable payload) and others succeeded,
\* the invocation raises no notification and writes the view: one record per
\* summary of its list, the bare summary where the detail fetch failed, the
\* summary with the payload as results where it succeeded with status done.
C12_FaultIsolation ==
  [][\A c \in DOMAIN cycles :
       JoinCompletes(c) =>
         /\ cycles'[c].toast = NoToast
         /\ writer' = c
         /\ Len(cases') = Len(cycles'[c].list)
         /\ filteredCases' = cases'
         /\ \A k \in DOMAIN cycles'[c].list :
              /\ cycles'[c].details[k] \in DetailFailures =>
                   cases'[k] = cycles'[c].list[k]
              /\ cycles'[c].details[k] = "done" =>
                   /\ SummaryOf(cases'[k]) = cycles'[c].list[k]
                   /\ cases'[k].results = Payload("done")]_vars

\* the view of an invocation over A and B whose detail fetch for B failed
\* and whose detail fetch for A succeeded
C12_Witness ==
  /\ Produced
  /\ cycles[writer].toast = NoToast
  /\ \E j, k \in DOMAIN cases :
       /\ cases[j].case_id = "A" /\ ViewDetails[j] = "done" /\ HasResult(cases[j])
       /\ cases[k].case_id = "B" /\ ViewDetails[k] \in DetailFailures
       /\ cases[k] = ViewList[k]


\* the list request of invocation c settles in this step with a failure the
\* claim names: a rejected fetch, or an error response whose JSON body
\* carries a message and no cases
ListRequestFails(c) ==
  /\ cycles[c].pc = "awaitList"
  /\ cycles'[c].got \in {"transport_error", "no_cases"}

\* C13 (as claimed): when the list request fails, by transport error or by a
\* non-success response with a message body, the invocation leaves cases and
\* filteredCases as they were and raises the failure notification.
C13_ListFailureNotified ==
  [][\A c \in DOMAIN cycles :
       ListRequestFails(c) =>
         /\ cases' = cases
         /\ filteredCases' = filteredCases
         /\ cycles'[c].pc = "returned"
         /\ cycles'[c].toast = ToastFetchFailed]_vars


\* the case ids of a list of summaries or records
Ids(list) == {list[k].case_id : k \in DOMAIN list}

\* invocation c returns in this step having received a list of cases
CycleSucceeds(c) ==
  /\ cycles[c].pc # "returned"
  /\ cycles'[c].pc = "returned"
  /\ cycles'[c].got = "cases"

\* C14 (as claimed): after a successful cycle the case ids in the view are
\* those of the relevant subset of that cycle's list response, and every
\* record is the one this cycle merged.
C14_RelevantIdsOnly ==
  [][\A c \in DOMAIN cycles :
       CycleSucceeds(c) =>
         /\ Ids(cases') = Ids(SelectSeq(cycles'[c].list, Relevant))
         /\ cases' = MapCasesRelevantOnly(cycles'[c].list, cycles'[c].details)]_vars

\* C14 (amended): a successful fetchCases invocation replaces the view
\* wholesale: the case ids in the view are those of its list response, all of
\* them, so a case of the prior view that the list no longer names is gone,
\* and every record is built from this invocation's summary and detail
\* outcome alone, whatever the prior view held.
C14_ReplacedWholesale ==
  [][\A c \in DOMAIN cycles :
       CycleSucceeds(c) =>
         /\ Ids(cases') = Ids(cycles'[c].list)
         /\ \A old \in Ids(cases) \ Ids(cycles'[c].list) : old \notin Ids(cases')
         /\ cases' = MapCases(cycles'[c].list, cycles'[c].details)
         /\ filteredCases' = cases']_vars

\* the second invocation has replaced the view of the first: a case the
\* first view held is gone, and a case that had a result has none now
C14_Witness ==
  /\ writer = 2
  /\ cycles[1].pc = "returned" /\ cycles[1].got = "cases"
  /\ \E j \in DOMAIN cycles[1].list : cycles[1].list[j].case_id \notin Ids(cases)
  /\ \E j \in DOMAIN cycles[1].list : \E k \in DOMAIN cases :
       /\ cycles[1].list[j].case_id = cases[k].case_id
       /\ cycles[1].details[j] = "done"
       /\ ~HasResult(cases[k])


\* ------------------------------------------------------------------------
\* CaseHistory under repeated Refresh clicks
\* ------------------------------------------------------------------------
\* the answers followed when invocations overlap: two lists and a rejected
\* fetch for GET /cases, a payload and a rejected fetch for the details
RefreshListOutcomes ==
  { [kind |-> "cases",
     cases |-> << Summary("A", "done", "today"), Summary("B", "done", "last_week") >>],
    [kind |-> "cases",
     cases |-> << Summary("A", "done", "today"), Summary("B", "processing", "today") >>],
    [kind |-> "transport_error", cases |-> <<>>] }

RefreshDetailOutcomes == {"done", "transport_error"}

\* the mount-time invocation, one more Refresh click than SpecHistory
\* follows, so that two clicks can fall into one another, and the disposal
\* of the component
NextRefresh ==
  \/ mountEffect
  \/ Refresh(MaxCycles + 1)
  \/ unmount
  \/ \E c \in DOMAIN cycles : \E outcome \in RefreshListOutcomes : listSettles(c, outcome)
  \/ \E c \in DOMAIN cycles : \E k \in DOMAIN cycles[c].details :
       \E outcome \in RefreshDetailOutcomes : detailSettles(c, k, outcome)

SpecRefresh == InitHistory /\ [][NextRefresh]_vars

\* the invocations that have not returned
InFlight == {c \in DOMAIN cycles : cycles[c].pc # "returned"}

\* the detail requests of invocation c that have not settled
PendingDetails(c) == {k \in DOMAIN cycles[c].details : cycles[c].details[k] = "pending"}

RECURSIVE SumPending(_)
SumPending(n) == IF n = 0 THEN 0 ELSE Cardinality(PendingDetails(n)) + SumPending(n - 1)

\* the longest list an invocation in flight has received
LongestListInFlight ==
  LET lens == {Len(cycles[c].list) : c \in InFlight}
  IN IF lens = {} THEN 0 ELSE CHOOSE n \in lens : \A other \in lens : other <= n

\* C15 (as claimed): at most one invocation is in flight at any time, also
\* after the mount-time fetch and any number of Refresh clicks, and the
\* detail requests in flight never outnumber the summaries of one list.
C15_OneCycleInFlight ==
  /\ Cardinality(InFlight) <= 1
  /\ SumPending(Len(cycles)) <= LongestListInFlight


\* the notifications raised so far, by invocation
Toasts == [c \in DOMAIN cycles |-> cycles[c].toast]

\* C16 (as claimed): once CaseHistory has been disposed, an invocation that
\* was in flight writes none of cases, filteredCases, isLoading and raises no
\* notification when it settles.
C16_NoEffectAfterDispose ==
  [][~mounted =>
       /\ cases' = cases
       /\ filteredCases' = filteredCases
       /\ isLoading' = isLoading
       /\ Toasts' = Toasts]_vars


\* ------------------------------------------------------------------------
\* CaseHistory with its scheduling
\* ------------------------------------------------------------------------
\* some request of some invocation settles
RequestSettles ==
  \/ \E c \in DOMAIN cycles : \E outcome \in RefreshListOutcomes : listSettles(c, outcome)
  \/ \E c \in DOMAIN cycles : \E k \in DOMAIN cycles[c].details :
       \E outcome \in RefreshDetailOutcomes : detailSettles(c, k, outcome)

\* React runs the effect of a mounted component, and a fetch() that has been
\* started is answered or rejected; clicks and tab changes are up to the user
SpecRefreshFair ==
  /\ InitHistory
  /\ [][NextRefresh]_vars
  /\ WF_vars(mountEffect)
  /\ WF_vars(RequestSettles)

\* the view on screen holds a case with status processing
ViewHasProcessing == \E k \in DOMAIN cases : cases[k].status = "processing"

\* nothing is in flight and the view, which holds a processing case, waits
\* for its next update
AwaitsNextPoll ==
  /\ mounted
  /\ Produced
  /\ ViewHasProcessing
  /\ InFlight = {}
  /\ Len(cycles) < MaxCycles

\* C17 (as claimed): an invocation is started on mount and, as long as the
\* latest view holds a processing case, another one is eventually started
\* without any user action: the step that starts an invocation unprompted,
\* which in CaseHistory is the effect, can be taken on mount and whenever
\* such a view waits.
C17_PollsWhileProcessing ==
  /\ Len(cycles) = 0 => ENABLED mountEffect
  /\ AwaitsNextPoll => ENABLED mountEffect

\* C17 (amended): CaseHistory starts one fetchCases invocation on mount and
\* never another one by itself: every later invocation is started by a click
\* on Refresh, whether or not the view holds a processing case.
C17_MountOnly ==
  /\ <>(Len(cycles) >= 1)
  /\ [](\A c \in DOMAIN cycles : (c = 1) <=> (cycles[c].trigger = "mount"))

\* a view with a processing case, produced by the mount-time invocation,
\* with nothing in flight
C17_Witness ==
  /\ mounted
  /\ writer = 1 /\ Len(cycles) = 1
  /\ cycles[1].trigger = "mount" /\ cycles[1].pc = "returned"
  /\ ViewHasProcessing


\* the list request of invocation c is answered with cases in this step
ListArrives(c) == cycles[c].pc = "awaitList" /\ cycles'[c].got = "cases"

\* the detail requests invocation c issues in this step
DetailsIssued(c) ==
  IF ListArrives(c)
    THEN {k \in DOMAIN cycles'[c].details : cycles'[c].details[k] = "pending"}
    ELSE {}

CancelOutcomes == {"success", "non_success", "network_error"}

ToastCancelled == [title |-> "Case Cancelled", description |-> <<>>]
ToastCancelFailed == [title |-> "Cancel Failed", description |-> <<>>]

\* the user cancels the k-th case of the view, which is processing: the
\* cancel request is sent
cancelCase(k) ==
  /\ mounted
  /\ Len(cancels) < MaxCancels
  /\ cases[k].status = "processing"
  /\ cancels' = Append(cancels,
       [case_id |-> cases[k].case_id, pc |-> "awaitCancel",
        outcome |-> "pending", toast |-> NoToast])
  /\ UNCHANGED <<cases, filteredCases, isLoading, cycles, writer, mounted,
                 searchTerm, formVars, uploadVars, authVars>>

\* (mutant) a controller that reconciles after every answer
cancelSettlesAlwaysReconciles(x, outcome) ==
  /\ cancels[x].pc = "awaitCancel"
  /\ cancels' = [cancels EXCEPT ![x].pc = "returned", ![x].outcome = outcome,
                                ![x].toast = IF outcome = "success"
                                               THEN ToastCancelled ELSE ToastCancelFailed]
  /\ StartCycle("cancel")
  /\ UNCHANGED <<cases, filteredCases, isLoading, writer, mounted, searchTerm, formVars, uploadVars, authVars>>

\* the cancel request x is answered: on success a notification and an
\* immediate reconciliation, otherwise a notification and nothing else
cancelSettles(x, outcome) ==
  /\ cancels[x].pc = "awaitCancel"
  /\ IF outcome = "success"
       THEN /\ cancels' = [cancels EXCEPT ![x].pc = "returned", ![x].outcome = outcome,
                                          ![x].toast = ToastCancelled]
            /\ StartCycle("cancel")
       ELSE /\ cancels' = [cancels EXCEPT ![x].pc = "returned", ![x].outcome = outcome,
                                          ![x].toast = ToastCancelFailed]
            /\ UNCHANGED cycles
  /\ UNCHANGED <<cases, filteredCases, isLoading, writer, mounted, searchTerm, formVars, uploadVars, authVars>>

\* the view is filled by the mount-time reconciliation and by those that
\* cancellations start
NextCancel ==
  \/ mountEffect
  \/ \E c \in DOMAIN cycles : \E outcome \in RefreshListOutcomes : listSettles(c, outcome)
  \/ \E c \in DOMAIN cycles : \E k \in DOMAIN cycles[c].details :
       \E outcome \in RefreshDetailOutcomes : detailSettles(c, k, outcome)
  \/ \E k \in DOMAIN cases : cancelCase(k)
  \/ \E x \in DOMAIN cancels : \E outcome \in CancelOutcomes : cancelSettles(x, outcome)

SpecCancel == InitHistory /\ [][NextCancel]_vars

\* the cancel request x is answered in this step
CancelAnswered(x) == cancels[x].pc = "awaitCancel" /\ cancels'[x].pc = "returned"

\* the reconciliations started in this step
CyclesStarted == (DOMAIN cycles') \ (DOMAIN cycles)

\* C19: for a cancel request on a processing case, a reconciliation is started
\* at once if and only if the backend answers with success; on a non-success
\* answer or a network error the view and the reconciliations are left as
\* they were, the failure notification is raised and no further cancel
\* request is sent.
C19_CancelOutcome ==
  [][/\ \A x \in DOMAIN cancels :
          CancelAnswered(x) =>
            IF cancels'[x].outcome = "success"
              THEN /\ Cardinality(CyclesStarted) = 1
                   /\ \A c \in CyclesStarted :
                        cycles'[c].trigger = "cancel" /\ cycles'[c].pc = "awaitList"
              ELSE /\ cycles' = cycles
                   /\ cases' = cases
                   /\ filteredCases' = filteredCases
                   /\ cancels'[x].toast = ToastCancelFailed
                   /\ Len(cancels') = Len(cancels)
     /\ (\E c \in CyclesStarted : cycles'[c].trigger = "cancel") =>
          \E x \in DOMAIN cancels : CancelAnswered(x) /\ cancels'[x].outcome = "success"
     /\ \A x \in (DOMAIN cancels') \ (DOMAIN cancels) :
          \E k \in DOMAIN cases :
            cases[k].status = "processing" /\ cancels'[x].case_id = cases[k].case_id]_vars

\* one cancel request was refused and left everything as it was, another was
\* acknowledged and its reconciliation is on its way
C19_Witness ==
  /\ \E x \in DOMAIN cancels :
       cancels[x].outcome \in {"non_success", "network_error"}
         /\ cancels[x].toast = ToastCancelFailed
  /\ \E x \in DOMAIN cancels :
       cancels[x].outcome = "success" /\ cancels[x].toast = ToastCancelled
  /\ Cardinality({c \in DOMAIN cycles : cycles[c].trigger = "cancel"}) = 1
  /\ \E c \in InFlight : cycles[c].trigger = "cancel"


\* ------------------------------------------------------------------------
\* The in-progress indicators: CaseUpload and CaseHistory with the
\* scheduling of their requests
\* ------------------------------------------------------------------------
\* a complete form: a case id and a folder with a T1 and a T2 file
AsyncCaseId == <<"C", "1">>
AsyncFiles == << <<"t", "1">>, <<"T", "2">> >>

\* the answers to GET /cases followed here: one done case, a rejected fetch
AsyncListOutcomes ==
  { [kind |-> "cases", cases |-> << Summary("A", "done", "today") >>],
    [kind |-> "transport_error", cases |-> <<>>] }

\* the answers to GET /check_case_id/{id} followed here
AsyncCheckOutcomes == {"exists", "absent"}

\* some request of some handleUpload invocation settles
UploadRequestSettles ==
  \/ \E i \in DOMAIN calls : \E outcome \in AsyncCheckOutcomes : checkSettles(i, outcome)
  \/ \E i \in DOMAIN calls : \E outcome \in UploadOutcomes : uploadSettles(i, outcome)

\* some request of the mount-time fetchCases invocation settles
MountRequestSettles ==
  \/ \E c \in DOMAIN cycles : \E outcome \in AsyncListOutcomes : listSettles(c, outcome)
  \/ \E c \in DOMAIN cycles : \E k \in DOMAIN cycles[c].details :
       \E outcome \in RefreshDetailOutcomes : detailSettles(c, k, outcome)

NextAsync ==
  \/ setCaseId(AsyncCaseId)
  \/ handleFileSelect(AsyncFiles)
  \/ handleUpload
  \/ UploadRequestSettles
  \/ mountEffect
  \/ MountRequestSettles

\* React runs the effect of a mounted component, and a fetch() that has been
\* started is answered or rejected; what the user does is up to the user
SpecAsync ==
  /\ InitHistory
  /\ [][NextAsync]_vars
  /\ WF_vars(mountEffect)
  /\ WF_vars(UploadRequestSettles)
  /\ WF_vars(MountRequestSettles)

\* every handleUpload invocation has returned
UploadsReturned == \A i \in DOMAIN calls : calls[i].pc = "returned"

\* C20: once handleUpload has set isUploading, isUploading becomes false
\* again, whether the upload succeeds, is answered non-2xx, is answered with
\* an undecodable body or fails in transport, and it is false when every
\* invocation has returned; isLoading becomes false after the mount-time
\* fetchCases, whether that succeeds or fails.
C20_IndicatorsClear ==
  /\ isUploading ~> ~isUploading
  /\ [](UploadsReturned => ~isUploading)
  /\ isLoading ~> ~isLoading
  /\ [](\A c \in DOMAIN cycles : cycles[c].pc = "returned" => ~isLoading)

\* an upload that failed in transport and one that was answered non-2xx have
\* returned and the flag is clear; the mount-time fetch has failed and
\* isLoading is clear
C20_Witness ==
  /\ \E i, j \in DOMAIN calls :
       /\ calls[i].pc = "returned" /\ calls[i].upload = "transport_error"
       /\ calls[j].pc = "returned" /\ calls[j].upload \in {"non2xx", "bad_body"}
  /\ ~isUploading
  /\ Len(cycles) = 1 /\ cycles[1].got = "transport_error"
  /\ ~isLoading


\* C21: the view is written by an invocation only in the step in which it
\* returns, when every one of its detail fetches has settled, and then once
\* and whole: while an invocation waits for its detail fetches the view is
\* the one that was there before, and the written records stand in the order
\* of the summaries of the list response, whichever detail fetch settled
\* first.
C21_WrittenOnceAfterJoin ==
  [][(cases' # cases \/ writer' # writer) =>
       \E c \in DOMAIN cycles :
         /\ CycleSucceeds(c)
         /\ writer' = c
         /\ \A k \in DOMAIN cycles'[c].details : cycles'[c].details[k] # "pending"
         /\ Len(cases') = Len(cycles'[c].list)
         /\ \A k \in DOMAIN cases' : SummaryOf(cases'[k]) = cycles'[c].list[k]]_vars

\* the second invocation waits for the detail of its first summary, the
\* detail of its second summary has settled already, and the view is still
\* the one the first invocation wrote
C21_Witness ==
  /\ writer = 1 /\ Len(cases) > 0
  /\ Len(cycles) = 2 /\ cycles[2].pc = "awaitDetails"
  /\ Len(cycles[2].list) = 2
  /\ cycles[2].details[1] = "pending" /\ cycles[2].details[2] \in DetailOutcomes
  /\ cases = MapCases(cycles[1].list, cycles[1].details)


\* ------------------------------------------------------------------------
\* The form state of CaseUpload
\* ------------------------------------------------------------------------
\* invocation i of handleUpload returns in this step
Returns(i) ==
  /\ i \in DOMAIN calls'
  /\ calls'[i].pc = "returned"
  /\ i \in DOMAIN calls => calls[i].pc # "returned"

\* the form as a triple
Form == <<caseId, files, detectedScans>>

\* the notifications that report a failure
IsFailureToast(toast) == toast # NoToast /\ toast # ToastUploadSuccessful

\* C22: a step that changes the file set or the assignment is either a
\* non-empty file selection, after which the assignment is the classification
\* of the newly selected files alone, or the return of a successful upload,
\* after which case id, file set and assignment are empty; an invocation that
\* returns after a failed check or a failed upload leaves case id, file set
\* and assignment as they were, has raised one failure notification and sends
\* no upload request then or later.
C22_FormLifecycle ==
  [][/\ (files' # files \/ detectedScans' # detectedScans) =>
          \/ /\ Len(files') > 0
             /\ detectedScans' = detectScanTypes(files')
             /\ caseId' = caseId
          \/ /\ \E i \in DOMAIN calls : Returns(i) /\ calls'[i].upload = "ok"
             /\ Form' = << <<>>, <<>>, EmptyMap >>
     /\ \A i \in DOMAIN calls' :
          Returns(i) =>
            IF calls'[i].upload = "ok"
              THEN Form' = << <<>>, <<>>, EmptyMap >>
              ELSE /\ Form' = Form
                   /\ IsFailureToast(calls'[i].toast)
                   /\ i \in DOMAIN calls => calls'[i].sent = calls[i].sent
                   /\ Cardinality({k \in DOMAIN calls'[i].sent :
                                     calls'[i].sent[k].endpoint = "upload"}) <= 1
     /\ \A i \in DOMAIN calls :
          calls[i].pc = "returned" => calls'[i] = calls[i]]_vars

\* a first upload succeeded and emptied the form; the form was filled again
\* and the second upload failed and left it filled
C22_Witness ==
  /\ Len(calls) = 2
  /\ calls[1].pc = "returned" /\ calls[1].upload = "ok"
  /\ calls[2].pc = "returned" /\ calls[2].upload \in {"non2xx", "bad_body", "transport_error"}
  /\ Form = <<calls[2].caseId, calls[2].files, calls[2].detectedScans>>
  /\ Len(files) > 0 /\ Trim(caseId) # <<>>


\* ------------------------------------------------------------------------
\* CaseUpload driven through its button
\* ------------------------------------------------------------------------
\* the disabled attribute of the upload button
ButtonDisabled ==
  \/ isUploading
  \/ Trim(caseId) = <<>>
  \/ Len(files) = 0
  \/ \E scan \in {"T1", "T2"} : scan \notin DOMAIN detectedScans

\* a click on the upload button
clickUpload == ~ButtonDisabled /\ handleUpload

NextClicks ==
  \/ \E value \in CaseIdInputs : setCaseId(value)
  \/ \E fileList \in UploadInputs : handleFileSelect(fileList)
  \/ clickUpload
  \/ \E i \in DOMAIN calls : \E outcome \in CheckOutcomes : checkSettles(i, outcome)
  \/ \E i \in DOMAIN calls : \E outcome \in UploadOutcomes : uploadSettles(i, outcome)

SpecClicks == InitUpload /\ [][NextClicks]_vars

\* the invocations between their existence query and the settlement of
\* their upload request
InProgress == {i \in DOMAIN calls : calls[i].pc \in {"awaitCheck", "awaitUpload"}}

\* C23 (as claimed): whatever the clicks on the upload button, at most one
\* handleUpload invocation is between its existence query and the settlement
\* of its upload request, and no two invocations have sent POST /api/upload
\* with the same case id and files.
C23_OneUploadInProgress ==
  /\ Cardinality(InProgress) <= 1
  /\ \A i, j \in DOMAIN calls :
       (i # j /\ UploadSent(i) /\ UploadSent(j)) =>
         <<calls[i].caseId, calls[i].files>> # <<calls[j].caseId, calls[j].files>>


\* ------------------------------------------------------------------------
\* CaseHistory with its search field
\* ------------------------------------------------------------------------
\* the characters of the case ids and tumor types that occur
Chars(string) ==
  CASE string = "A" -> <<"A">>
    [] string = "B" -> <<"B">>
    [] string = "Glioma" -> <<"G", "l", "i", "o", "m", "a">>
    [] OTHER -> <<>>

\* what the user can type into the search field
SearchTerms == { <<>>, <<" ">>, <<"a">>, <<"G", "L">> }

\* the predicate of cases.filter in handleSearch
MatchesTerm(case_, term) ==
  \/ Includes(ToLowerCase(Chars(case_.case_id)), ToLowerCase(term))
  \/ /\ "results" \in DOMAIN case_
     /\ "tumor_type" \in DOMAIN case_.results
     /\ Includes(ToLowerCase(Chars(case_.results.tumor_type)), ToLowerCase(term))

\* the list handleSearch gives to setFilteredCases
SearchFilter(list, term) ==
  IF Trim(term) = <<>>
    THEN list
    ELSE SelectSeq(list, LAMBDA case_ : MatchesTerm(case_, term))

\* onChange of the search field, which is rendered once isLoading is false
handleSearch(term) ==
  /\ mounted
  /\ ~isLoading
  /\ searchTerm' = term
  /\ filteredCases' = SearchFilter(cases, term)
  /\ UNCHANGED <<cases, isLoading, cycles, writer, mounted, cancels, formVars, uploadVars, authVars>>

NextSearch ==
  \/ mountEffect
  \/ Refresh(MaxCycles)
  \/ \E term \in SearchTerms : handleSearch(term)
  \/ \E c \in DOMAIN cycles : \E outcome \in RefreshListOutcomes : listSettles(c, outcome)
  \/ \E c \in DOMAIN cycles : \E k \in DOMAIN cycles[c].details :
       \E outcome \in RefreshDetailOutcomes : detailSettles(c, k, outcome)

SpecSearch == InitHistory /\ [][NextSearch]_vars

\* C24 (as claimed): in every reachable state filteredCases is the search
\* filter applied to cases with the current searchTerm: all cases when the
\* term is empty or blank, otherwise those whose case_id or result tumor_type
\* contains the term, case-insensitively; also after handleSearch and
\* successful fetchCases invocations in any order.
C24_FilteredMatchesTerm ==
  filteredCases = SearchFilter(cases, searchTerm)


\* C25 (as claimed): once every fetchCases invocation has returned, the view
\* is the one written by the invocation that was started last among those
\* that received cases, and at no time does an invocation overwrite the view
\* of one that was started after it.
C25_LastStartedWins ==
  [][/\ (InFlight' = {} /\ Produced') =>
          \A c \in DOMAIN cycles' : cycles'[c].got = "cases" => c <= writer'
     /\ writer' >= writer]_vars


\* ---------------------------------------------------------------------------
\* The authentication gate: Index keeps isAuthenticated in a state cell and
\* the flag medical_ai_auth in localStorage; it shows LoginForm while
\* isAuthenticated is false and Dashboard otherwise.

\* localStorage.getItem('medical_ai_auth'): "none" stands for null, the value
\* of an absent key; 'authenticated' is the only value the program stores
AuthFlags == { "none", "authenticated" }

\* the argument LoginForm passes to onLogin
LoginResults == BOOLEAN

\* the page is opened: no instance of Index has run its effect yet, the flag
\* is whatever an earlier visit left in localStorage, and no view of the
\* Dashboard is mounted
InitAuth ==
  /\ InitForm
  /\ inputFiles = <<>>
  /\ cases = <<>>
  /\ filteredCases = <<>>
  /\ isLoading = TRUE
  /\ cycles = <<>>
  /\ writer = 0
  /\ mounted = FALSE
  /\ cancels = <<>>
  /\ searchTerm = <<>>
  /\ isAuthenticated = FALSE
  /\ authFlag \in AuthFlags
  /\ effectRan = FALSE
  /\ authCalls = <<>>

\* the effect of Index with the empty dependency list: it runs once per
\* instance, reads the flag and sets isAuthenticated when it says so
authEffect ==
  /\ ~effectRan
  /\ effectRan' = TRUE
  /\ isAuthenticated' = IF authFlag = "authenticated" THEN TRUE ELSE isAuthenticated
  /\ UNCHANGED <<authFlag, authCalls, formVars, uploadVars, historyVars>>

\* handleLogin without the test of its argument
handleLoginIgnoresSuccess(success) ==
  /\ effectRan
  /\ Len(authCalls) < MaxAuthCalls
  /\ authCalls' = Append(authCalls, [op |-> "handleLogin", success |-> success])
  /\ authFlag' = "authenticated"
  /\ isAuthenticated' = TRUE
  /\ UNCHANGED <<effectRan, formVars, uploadVars, historyVars>>

\* handleLogin(success): on success the flag is stored and isAuthenticated
\* set; otherwise nothing is touched
handleLogin(success) ==
  /\ effectRan
  /\ Len(authCalls) < MaxAuthCalls
  /\ authCalls' = Append(authCalls, [op |-> "handleLogin", success |-> success])
  /\ IF success
       THEN /\ authFlag' = "authenticated"
            /\ isAuthenticated' = TRUE
       ELSE UNCHANGED <<authFlag, isAuthenticated>>
  /\ UNCHANGED <<effectRan, formVars, uploadVars, historyVars>>

\* handleLogout: the flag is removed and isAuthenticated cleared
handleLogout ==
  /\ effectRan
  /\ Len(authCalls) < MaxAuthCalls
  /\ authCalls' = Append(authCalls, [op |-> "handleLogout", success |-> FALSE])
  /\ authFlag' = "none"
  /\ isAuthenticated' = FALSE
  /\ UNCHANGED <<effectRan, formVars, uploadVars, historyVars>>

\* the page is loaded again: a new instance of Index starts from
\* useState(false) with its effect still to run; localStorage is kept
Index ==
  /\ Len(authCalls) < MaxAuthCalls
  /\ authCalls' = Append(authCalls, [op |-> "Index", success |-> FALSE])
  /\ isAuthenticated' = FALSE
  /\ effectRan' = FALSE
  /\ UNCHANGED <<authFlag, formVars, uploadVars, historyVars>>

NextAuth ==
  \/ authEffect
  \/ \E success \in LoginResults : handleLogin(success)
  \/ handleLogout
  \/ Index

SpecAuth == InitAuth /\ [][NextAuth]_vars

\* the step appends the given call to authCalls
Called(op, success) ==
  authCalls' = Append(authCalls, [op |-> op, success |-> success])

\* C26: once the mount effect has run, and after any sequence of handleLogin
\* and handleLogout calls, isAuthenticated is true exactly when the stored
\* flag is 'authenticated'; handleLogin(false) changes neither the flag nor
\* isAuthenticated, handleLogout clears both, and the effect of a new
\* instance sets isAuthenticated from the flag, which it leaves as it is.
C26_GateConsistent ==
  /\ [](effectRan => (isAuthenticated <=> authFlag = "authenticated"))
  /\ [][/\ Called("handleLogin", FALSE) =>
             authFlag' = authFlag /\ isAuthenticated' = isAuthenticated
        /\ Called("handleLogout", FALSE) =>
             authFlag' = "none" /\ ~isAuthenticated'
        /\ (~effectRan /\ effectRan') =>
             /\ authFlag' = authFlag
             /\ isAuthenticated' <=> authFlag = "authenticated"]_vars

\* a successful login, then later a reload whose effect has run and a failed
\* login after it: the user is signed in from the flag alone, and the failed
\* login has left it so
C26_Witness ==
  /\ effectRan
  /\ isAuthenticated
  /\ authFlag = "authenticated"
  /\ Len(authCalls) >= 3
  /\ authCalls[1] = [op |-> "handleLogin", success |-> TRUE]
  /\ authCalls[Len(authCalls) - 1].op = "Index"
  /\ authCalls[Len(authCalls)] = [op |-> "handleLogin", success |-> FALSE]

====
